---------------------------- MODULE Spec2Model ----------------------------
(***************************************************************************)
(* A model of utils/w3_utils.py: the transaction submitter (send_tx), the  *)
(* on-disk ABI cache (load_verified_contract_abi), the deploy-and-verify   *)
(* workflow (deploy_and_verify) and the proxy resolution                   *)
(* (get_proxy_impl_address, load_impl_contract_from_proxy_address); and of *)
(* compile_contract of utils/contract_utils.py.                            *)
(*                                                                         *)
(* The program is single-threaded and blocking.  The chain node and the    *)
(* block-explorer API are the environment: every answer they give is       *)
(* chosen nondeterministically from the small sets below.  An operation    *)
(* that blocks on the environment is split at the blocking call, so that   *)
(* the environment can act while the program waits.                        *)
(*                                                                         *)
(* Left out: the sleeps between the calls and the printed messages, which  *)
(* change no state, and the compiler, whose result is the fixed ABI of the *)
(* contract being deployed.  The assert of send_tx is the one of an        *)
(* interpreter that runs with assertions on.                               *)
(***************************************************************************)
EXTENDS Integers, Sequences, FiniteSets, TLC

(***************************************************************************)
(* Bounds of the model.                                                    *)
(***************************************************************************)
\* The most transactions of ACCOUNT1 the node ever holds (sent by the
\* program or by somebody else with the same key).
MaxTx == 3

(***************************************************************************)
(* Texts.  A text is a sequence of one-character strings, so that Python's *)
(* substring test ("Pending" in s) and concatenation (+) are computed, not *)
(* assumed.                                                                *)
(***************************************************************************)
IsSubstring(needle, hay) ==
    \E k \in 0..(Len(hay) - Len(needle)) :
        SubSeq(hay, k + 1, k + Len(needle)) = needle

TxtPending == <<"P","e","n","d","i","n","g">>
TxtPendingInQueue == TxtPending \o <<" ","i","n"," ","q","u","e","u","e">>
TxtPassVerified == <<"P","a","s","s"," ","-"," ","V","e","r","i","f","i","e","d">>
TxtFailUnable == <<"F","a","i","l"," ","-"," ","U","n","a","b","l","e">>
TxtAlreadyVerified == <<"A","l","r","e","a","d","y"," ","V","e","r","i","f","i","e","d">>
TxtGuid == <<"g","u","i","d","1">>
TxtBadKey == <<"I","n","v","a","l","i","d"," ","A","P","I"," ","K","e","y">>
TxtNotVerified == <<"n","o","t"," ","v","e","r","i","f","i","e","d">>
TxtFlatten == <<"F","l","a","t","t","e","n","i","n","g"," ","f","a","i","l","e","d",":"," ">>
\* "Verification submission failed: "
TxtSubmissionFailed == <<"s","u","b","m","i","s","s","i","o","n"," ","f","a","i","l","e","d",":"," ">>
\* The prefix of the poll loop's error (its leading cross mark is left out).
TxtVerificationFailed == <<"V","e","r","i","f","i","c","a","t","i","o","n"," ","f","a","i","l","e","d",":"," ">>
\* "Failed to fetch ABI for {address}: "
TxtFetchFailed == <<"F","a","i","l","e","d"," ","t","o"," ","f","e","t","c","h",":"," ">>
NoText == <<>>

(***************************************************************************)
(* Addresses.  An address is its 20-byte value (id) and the letter case it *)
(* is written in.  id 0 is no address (None, or the empty string) or, in   *)
(* checksum form, the zero address.                                        *)
(***************************************************************************)
AddrIds == {1, 2}
AddrForms == {"checksum", "lower"}
Addresses == [id : AddrIds, form : AddrForms]
NoneAddr == [id |-> 0, form |-> "None"]
EmptyAddr == [id |-> 0, form |-> "empty"]
\* "0x" and forty zeros: the address in an implementation slot whose low 20
\* bytes are zero.
ZeroAddress == [id |-> 0, form |-> "checksum"]

\* w3.to_checksum_address: the same 20 bytes in the EIP-55 letter case.
to_checksum_address(a) == [id |-> a.id, form |-> "checksum"]

\* Python truthiness of an address argument: None and "" are false.
Truthy(a) == a.form \notin {"None", "empty"}

\* The contract address in the receipt of a creation transaction: a function
\* of the sender and the nonce, outside the supplied addresses.
CreatedAddress(nonce) == [id |-> 100 + nonce, form |-> "checksum"]

(***************************************************************************)
(* ABIs and JSON.  An ABI value is the set of the function names it lists. *)
(* A JSON text has that value and a layout; json.loads drops the layout,   *)
(* json.dump(.., indent=2) writes the indented layout.                     *)
(***************************************************************************)
AbiValues == {{"deposit"}, {"implementation", "upgradeTo"}}
NoAbi == {}
CompiledAbi == {"deposit"}

JsonTexts == [abi : AbiValues, layout : {"compact", "indent2"}]
json_loads(text) == text.abi
json_dump(abi) == [abi |-> abi, layout |-> "indent2"]
NoFile == [abi |-> NoAbi, layout |-> "absent"]

\* Cache directories, and the cache files: one per directory and file name,
\* the name being an address as it is written.
Dirs == {"./.abi_cache"}
CacheKeys == Dirs \X (Addresses \cup {ZeroAddress})
LoadKeys == Dirs \X (AddrIds \cup {ZeroAddress.id})

(***************************************************************************)
(* Proxies.  The 32 bytes of a storage slot are its high 12 bytes and its  *)
(* low 20 bytes, each as a number.                                         *)
(***************************************************************************)
ProxyIds == {1}
ProxyAddresses == {a \in Addresses : a.id \in ProxyIds}
SlotValues == [high : {0, 1}, low : {0, 1, 2}]
ChainValues == [slot : SlotValues, implementation : AddrIds]
\* A proxy that was deployed and not yet pointed at an implementation.
Uninitialized == [slot |-> [high |-> 0, low |-> 0], implementation |-> 1]

(***************************************************************************)
(* Compiler output fields, and the lists of them a caller may write.       *)
(***************************************************************************)
KEY_abi == "abi"
KEY_bin == "bin"
KEY_metadata == "metadata"
OutputKeys == {KEY_abi, KEY_bin, KEY_metadata}
Range(list) == {list[n] : n \in DOMAIN list}
\* The lists of one to three different fields.
OutputLists ==
    {list \in UNION {[1..n -> OutputKeys] : n \in 1..Cardinality(OutputKeys)} :
        Cardinality(Range(list)) = Len(list)}
\* What the script knows of a list it has just built.
Built(list) == [built |-> list, called |-> FALSE, fields |-> {}]
NoLoad == [last |-> "none", abi |-> NoAbi]


(***************************************************************************)
(* The answers of the environment.                                         *)
(***************************************************************************)
\* The acknowledgment of a verifysourcecode submission: {status, result},
\* result being the guid when status is "1" and an error text otherwise.
SubmitAcks ==
    { [status |-> "1", result |-> TxtGuid],
      [status |-> "0", result |-> TxtBadKey],
      [status |-> "0", result |-> TxtAlreadyVerified] }

\* An answer to checkverifystatus: {status, result}.
StatusAnswers ==
    { [status |-> "1", result |-> TxtPassVerified],
      [status |-> "0", result |-> TxtPendingInQueue],
      [status |-> "0", result |-> TxtFailUnable],
      [status |-> "0", result |-> TxtAlreadyVerified] }
NoStatus == [status |-> "", result |-> NoText]

\* An answer to getabi: {status, result}; result is the ABI as a JSON text
\* when status is "1" and an error text otherwise.
GetAbiAnswers ==
    [status : {"1"}, json : JsonTexts, result : {NoText}]
    \cup { [status |-> "0", json |-> NoFile, result |-> TxtNotVerified],
           [status |-> "0", json |-> NoFile, result |-> TxtBadKey] }

\* The transactions handed to send_tx: an unsent contract call (a builder)
\* or a pre-encoded transaction dict, which may already carry a nonce
\* (-1: it carries none).
Transactions == [kind : {"builder", "dict"}, nonce : {-1, 0}]
Constructor == [kind |-> "builder", nonce |-> -1]

\* Constructor argument lists: None, or one argument.
ConstructorArgs == {<<>>, <<"arg">>}

(***************************************************************************)
(* The state.                                                              *)
(***************************************************************************)
VARIABLES
    pc,      \* where the program is: "idle" between the script's calls, the
             \* blocking call the running operation is at, or "done" when
             \* the operation has returned or raised
    node,    \* the node: how many transactions of ACCOUNT1 it holds (mined or
             \* pending) and the last raw transaction of the account handed
             \* to it, by this program or by anybody else holding the key
    cache,   \* the disk: the text of each ABI cache file, by (cache_dir, name)
    loads,   \* history: for each (cache_dir, 20-byte address), how the last
             \* load_verified_contract_abi call for it ended, and the ABI the
             \* first returning call gave
    frame,   \* the locals and the outcome of the running (or last) operation
    chain,   \* the chain: for each proxy contract, the 32 bytes in its
             \* EIP-1967 implementation slot and what its implementation()
             \* function returns
    resolved, \* history: for each proxy, the implementation address the last
             \* get_proxy_impl_address call for it returned
    output_values, \* the list object the script holds and passes to
             \* compile_contract as output_values
    caller   \* history: the fields the script wrote into that list when it
             \* built it, and what the last compile_contract call that was
             \* given the list returned

vars == <<pc, node, cache, loads, frame, chain, resolved, output_values, caller>>

\* The state outside the transactions and the cache.
others == <<chain, resolved, output_values, caller>>

NoTx == [nonce |-> -1, by |-> "nobody", build_tx |-> FALSE, accepted |-> FALSE]
NoHandle == [address |-> NoneAddr, abi |-> NoAbi]
NoPayload == [contractaddress |-> NoneAddr, constructorArguments |-> FALSE]

NoChain == [slot |-> [high |-> 0, low |-> 0], implementation |-> 0]

\* The frame of an operation that has not done anything yet.
Frame0 ==
    [ op |-> "none", outcome |-> "running", errType |-> "none", error |-> NoText,
      \* send_tx
      build_tx |-> TRUE, nonce |-> -1, tx_nonce |-> -1, broadcasts |-> 0,
      previous |-> NoTx, receiptStatus |-> -1, receiptAddress |-> NoneAddr,
      \* deploy_and_verify
      supplied |-> NoneAddr, constructor_args |-> <<>>,
      contract_address |-> NoneAddr, payload |-> NoPayload,
      submits |-> 0, ack |-> NoStatus, guid |-> NoText, i |-> 0, polls |-> 0, pendings |-> 0,
      status |-> NoStatus, handle |-> NoHandle,
      \* load_verified_contract_abi
      address |-> NoneAddr, cache_dir |-> "", exists |-> FALSE, network |-> 0,
      wrote |-> {}, data_status |-> "", abi |-> NoAbi, before |-> NoLoad,
      \* get_proxy_impl_address, load_impl_contract_from_proxy_address
      proxy_address |-> NoneAddr, proxy_cached |-> FALSE, proxy_abi |-> NoAbi,
      onchain |-> NoChain, path |-> "none", slot_reads |-> 0, call_reads |-> 0,
      impl_address |-> NoneAddr, before_impl |-> NoneAddr,
      \* compile_contract
      passed |-> "nothing", supplied_list |-> <<>>, requested |-> <<>>,
      remove_fields |-> {}, fields |-> {}, earlier |-> Built(<<>>) ]

Raise(f, type, text) ==
    [f EXCEPT !.outcome = "raised", !.errType = type, !.error = text]

Init ==
    /\ pc = "idle"
    /\ node = [count |-> 0, last |-> NoTx]
    /\ cache = [k \in CacheKeys |-> NoFile]
    /\ loads = [k \in LoadKeys |-> NoLoad]
    /\ frame = Frame0
    /\ chain = [id \in ProxyIds |-> Uninitialized]
    /\ resolved = [id \in ProxyIds |-> NoneAddr]
    /\ output_values = <<KEY_abi>>
    /\ caller = Built(<<KEY_abi>>)

(***************************************************************************)
(* The node.                                                               *)
(***************************************************************************)
\* w3.eth.get_transaction_count(ACCOUNT1, 'pending'): the transactions of
\* the account the node holds, mined or not.
get_transaction_count == node.count

\* send_raw_transaction: the node takes a transaction whose nonce is the
\* account's next one and refuses one whose nonce is used already.
NodeAccepts(nonce) == nonce = node.count

\* The node after it was handed the raw transaction tx.
Received(tx) ==
    [count |-> IF tx.accepted THEN node.count + 1 ELSE node.count, last |-> tx]

\* A transaction of the account that this program did not send.
ExternalTx ==
    /\ node.count < MaxTx
    /\ node' = Received([nonce |-> node.count, by |-> "external",
                         build_tx |-> FALSE, accepted |-> TRUE])
    /\ UNCHANGED <<pc, cache, loads, frame, others>>

(***************************************************************************)
(* send_tx                                                                 *)
(***************************************************************************)
\* The else branch of send_tx that keeps a nonce the dict already carries.
BuildKeepingNonce(transaction, build_tx, nonce) ==
    IF build_tx
    THEN [ok |-> transaction.kind = "builder", nonce |-> nonce]
    ELSE [ok |-> transaction.kind = "dict",
          nonce |-> IF transaction.nonce # -1 THEN transaction.nonce ELSE nonce]

\* Lines 67-76: the transaction that is signed.  A builder is finalized with
\* {from, chainId, nonce}; a dict gets the three fields assigned, whatever
\* it carried.  The other object in either branch is a type error.
BuildTransaction(transaction, build_tx, nonce) ==
    IF build_tx
    THEN [ok |-> transaction.kind = "builder", nonce |-> nonce]
    ELSE [ok |-> transaction.kind = "dict", nonce |-> nonce]

\* Lines 66-78 in the frame f: fetch the nonce, build and sign.
Signed(f, transaction, build_tx) ==
    LET nonce == get_transaction_count
        built == BuildTransaction(transaction, build_tx, nonce)
    IN  IF built.ok
        THEN [f EXCEPT !.build_tx = build_tx, !.nonce = nonce,
                       !.tx_nonce = built.nonce]
        ELSE Raise([f EXCEPT !.build_tx = build_tx, !.nonce = nonce],
                   "TypeError", NoText)

\* The script calls send_tx(transaction, build_tx).
SendTxCall ==
    /\ pc = "idle"
    /\ node.count < MaxTx
    /\ \E transaction \in Transactions, build_tx \in BOOLEAN :
         /\ frame' = Signed([Frame0 EXCEPT !.op = "send_tx"], transaction, build_tx)
         /\ pc' = IF frame'.outcome = "raised" THEN "done" ELSE "send_tx_signed"
    /\ UNCHANGED <<node, cache, loads, others>>

\* Line 79: send_raw_transaction.
SendTxBroadcast ==
    /\ pc = "send_tx_signed"
    /\ LET accepted == NodeAccepts(frame.tx_nonce)
             handed == [frame EXCEPT !.broadcasts = @ + 1, !.previous = node.last]
         IN
         /\ node' = Received([nonce |-> frame.tx_nonce, by |-> "send_tx",
                              build_tx |-> frame.build_tx, accepted |-> accepted])
         /\ IF accepted
            THEN /\ frame' = handed
                 /\ pc' = "send_tx_wait"
            ELSE /\ frame' = Raise(handed, "ValueError", NoText)
                 /\ pc' = "done"
    /\ UNCHANGED <<cache, loads, others>>

\* The assert of line 82 compiled away.
ReceiptUnchecked(status) == TRUE

\* Line 82: assert tx_receipt[KEY_status] == 1.
ReceiptOk(status) == status = 1

\* Lines 81-83: wait_for_transaction_receipt returns the mined receipt, and
\* send_tx returns it to its caller or fails on the assertion.  Returning to
\* deploy_and_verify goes on at lines 227-232.
SendTxReceipt ==
    /\ pc = "send_tx_wait"
    /\ \E status \in {0, 1} :
         LET got == [frame EXCEPT !.receiptStatus = status] IN
         IF ~ReceiptOk(status)
         THEN /\ frame' = Raise(got, "AssertionError", NoText)
              /\ pc' = "done"
         ELSE IF frame.op = "send_tx"
         THEN /\ frame' = [got EXCEPT !.outcome = "returned",
                                      !.receiptAddress = CreatedAddress(frame.tx_nonce)]
              /\ pc' = "done"
         ELSE /\ frame' = [got EXCEPT !.receiptAddress = CreatedAddress(frame.tx_nonce),
                                      !.contract_address = CreatedAddress(frame.tx_nonce)]
              /\ pc' = "dv_submit"
    /\ UNCHANGED <<node, cache, loads, others>>

(***************************************************************************)
(* deploy_and_verify                                                       *)
(***************************************************************************)
\* The loop of line 262 is range(10).
POLL_ATTEMPTS == 10

\* Line 219 with its test dropped: the workflow deploys whatever it is given.
DeployAlways(contract_address) == FALSE

\* Line 219: if contract_address.
DeploySkipped(contract_address) == Truthy(contract_address)

\* Line 256 with its test dropped.
AcceptedAlways(result) == TRUE

\* Line 256: the submission is acknowledged unless status != "1".
SubmissionAccepted(result) == result.status = "1"

\* The loop going round once more than range(10).
LoopOneMore(i) == i <= POLL_ATTEMPTS

\* Line 262: for _ in range(10), i being the number of finished rounds.
LoopContinues(i) == i < POLL_ATTEMPTS

\* Lines 274-282 comparing the status with the number 1: never equal.
PollOutcomeIntCompare(status) ==
    IF IsSubstring(TxtPending, status.result) THEN "continue" ELSE "raise"

\* Lines 274-282 without the else branch: anything not verified is awaited.
PollOutcomeNoElse(status) ==
    IF status.status = "1" THEN "break" ELSE "continue"

\* Lines 274-282: what one answer does to the loop.
PollOutcome(status) ==
    IF status.status = "1" THEN "break"
    ELSE IF IsSubstring(TxtPending, status.result) THEN "continue"
    ELSE "raise"

\* Line 284: the handle deploy_and_verify returns.
Returned(f) ==
    [f EXCEPT !.outcome = "returned",
              !.handle = [address |-> f.contract_address, abi |-> CompiledAbi]]

\* Lines 218-226: compile; with an address go on to the verification, else
\* call send_tx with the constructor (lines 66-78 of it happen here).
DeployAndVerifyCall ==
    /\ pc = "idle"
    /\ \E contract_address \in Addresses \cup {NoneAddr, EmptyAddr},
          constructor_args \in ConstructorArgs :
         LET f == [Frame0 EXCEPT !.op = "deploy_and_verify",
                                 !.supplied = contract_address,
                                 !.constructor_args = constructor_args]
         IN  IF DeploySkipped(contract_address)
             THEN /\ frame' = [f EXCEPT !.contract_address = contract_address]
                  /\ pc' = "dv_submit"
             ELSE /\ node.count < MaxTx
                  /\ frame' = Signed(f, Constructor, TRUE)
                  /\ pc' = "send_tx_signed"
    /\ UNCHANGED <<node, cache, loads, others>>

\* Lines 234-259: build the payload (flatten_contract may fail) and post it.
DeployAndVerifySubmit ==
    /\ pc = "dv_submit"
    /\ \E flattened \in BOOLEAN, result \in SubmitAcks :
         LET payload == [contractaddress |-> frame.contract_address,
                         constructorArguments |-> frame.constructor_args # <<>>]
             posted == [frame EXCEPT !.payload = payload, !.submits = @ + 1,
                                     !.ack = result]
         IN  IF ~flattened
             THEN /\ frame' = Raise(frame, "RuntimeError", TxtFlatten)
                  /\ pc' = "done"
             ELSE IF ~SubmissionAccepted(result)
             THEN /\ frame' = Raise(posted, "Exception",
                                    TxtSubmissionFailed \o result.result)
                  /\ pc' = "done"
             ELSE /\ frame' = [posted EXCEPT !.guid = result.result]
                  /\ pc' = "dv_poll"
    /\ UNCHANGED <<node, cache, loads, others>>

\* Lines 262-284: one round of the poll loop, and the return after the loop.
DeployAndVerifyPoll ==
    /\ pc = "dv_poll"
    /\ \E status \in StatusAnswers :
         LET pending == status.status # "1" /\ IsSubstring(TxtPending, status.result)
             asked == [frame EXCEPT !.polls = @ + 1, !.status = status,
                                    !.pendings = IF pending THEN @ + 1 ELSE @,
                                    !.i = @ + 1]
             outcome == PollOutcome(status)
         IN  IF outcome = "break"
             THEN /\ frame' = Returned(asked)
                  /\ pc' = "done"
             ELSE IF outcome = "raise"
             THEN /\ frame' = Raise(asked, "Exception",
                                    TxtVerificationFailed \o status.result)
                  /\ pc' = "done"
             ELSE IF LoopContinues(asked.i)
             THEN /\ frame' = asked
                  /\ pc' = "dv_poll"
             ELSE /\ frame' = Returned(asked)
                  /\ pc' = "done"
    /\ UNCHANGED <<node, cache, loads, others>>

(***************************************************************************)
(* load_verified_contract_abi                                              *)
(***************************************************************************)
\* The cache file named by the address as the caller wrote it.
CachePathAsWritten(cache_dir, contract_address) ==
    <<cache_dir, contract_address>>

\* Lines 133-135: the cache file of an address, named by its checksum form.
CachePath(cache_dir, contract_address) ==
    <<cache_dir, to_checksum_address(contract_address)>>

\* A file opened for writing and left with nothing in it.
EmptyFile == [abi |-> NoAbi, layout |-> "empty"]

\* Lines 144-152 opening the cache file before looking at the answer.
FetchOpeningFirst(f, path, data) ==
    LET asked == [f EXCEPT !.network = @ + 1, !.data_status = data.status,
                           !.wrote = {path}]
    IN  IF data.status # "1"
        THEN [cache |-> [cache EXCEPT ![path] = EmptyFile],
              frame |-> Raise(asked, "ValueError", TxtFetchFailed \o data.result)]
        ELSE [cache |-> [cache EXCEPT ![path] = json_dump(json_loads(data.json))],
              frame |-> [asked EXCEPT !.outcome = "returned",
                                      !.abi = json_loads(data.json)]]

\* Lines 144-152: the cache miss.  One getabi request; without an ABI in the
\* answer the call fails, with one the ABI is parsed, written and returned.
Fetch(f, path, data) ==
    LET asked == [f EXCEPT !.network = @ + 1, !.data_status = data.status]
    IN  IF data.status # "1"
        THEN [cache |-> cache,
              frame |-> Raise(asked, "ValueError", TxtFetchFailed \o data.result)]
        ELSE LET abi == json_loads(data.json)
             IN  [cache |-> [cache EXCEPT ![path] = json_dump(abi)],
                  frame |-> [asked EXCEPT !.outcome = "returned", !.abi = abi,
                                          !.wrote = {path}]]

\* Lines 133-154, the whole call.
LoadVerifiedContractAbi ==
    /\ pc = "idle"
    /\ \E contract_address \in Addresses, cache_dir \in Dirs, data \in GetAbiAnswers :
         LET path == CachePath(cache_dir, contract_address)
             k == <<cache_dir, contract_address.id>>
             f == [Frame0 EXCEPT !.op = "load_verified_contract_abi",
                                 !.address = contract_address,
                                 !.cache_dir = cache_dir,
                                 !.exists = cache[path] # NoFile,
                                 !.before = loads[k]]
             r == IF cache[path] # NoFile
                  THEN [cache |-> cache,
                        frame |-> [f EXCEPT !.outcome = "returned",
                                            !.abi = json_loads(cache[path])]]
                  ELSE Fetch(f, path, data)
             ok == r.frame.outcome = "returned"
         IN  /\ frame' = r.frame
             /\ cache' = r.cache
             /\ loads' = [loads EXCEPT ![k] =
                   [last |-> IF ok THEN "returned" ELSE "failed",
                    abi |-> IF @.abi = NoAbi /\ ok THEN r.frame.abi ELSE @.abi]]
    /\ pc' = "done"
    /\ UNCHANGED <<node, others>>

\* The operation's return value or exception reaches the script, its frame is
\* gone, and the script is free to make its next call.
ScriptContinues ==
    /\ pc = "done"
    /\ pc' = "idle"
    /\ frame' = Frame0
    /\ UNCHANGED <<node, cache, loads, others>>

(***************************************************************************)
(* get_proxy_impl_address and load_impl_contract_from_proxy_address        *)
(***************************************************************************)
\* The cache_dir both operations leave at its default.
DefaultDir == "./.abi_cache"

\* Lines 133-154 called from another operation whose frame is f: the cache,
\* the frame and the history after the call.
LoadInto(f, contract_address, cache_dir, data) ==
    LET path == CachePath(cache_dir, contract_address)
        k == <<cache_dir, contract_address.id>>
        g == [f EXCEPT !.address = contract_address,
                       !.cache_dir = cache_dir,
                       !.exists = cache[path] # NoFile,
                       !.before = loads[k],
                       !.network = 0, !.wrote = {}, !.data_status = ""]
        r == IF cache[path] # NoFile
             THEN [cache |-> cache,
                   frame |-> [g EXCEPT !.outcome = "returned",
                                       !.abi = json_loads(cache[path])]]
             ELSE Fetch(g, path, data)
        ok == r.frame.outcome = "returned"
    IN  [cache |-> r.cache,
         frame |-> r.frame,
         loads |-> [loads EXCEPT ![k] =
                      [last |-> IF ok THEN "returned" ELSE "failed",
                       abi |-> IF @.abi = NoAbi /\ ok THEN r.frame.abi ELSE @.abi]]]

\* Line 174: the ABI lists a function named implementation.
ExposesImplementation(abi) == "implementation" \in abi

\* Line 180 looking at the address in the slot only.
LowBytesZero(impl_raw) == impl_raw.low = 0

\* Line 180: int(impl_raw.hex(), 16) == 0, the 32 bytes read as one number.
SlotIsZero(impl_raw) == impl_raw.high = 0 /\ impl_raw.low = 0

\* Line 183: the last 40 hex digits of the slot, as a checksum address.
AddressFromSlot(impl_raw) ==
    to_checksum_address([id |-> impl_raw.low, form |-> "lower"])

\* Lines 174-185: the implementation of the proxy as the chain has it now,
\* by the implementation() call or from the slot.
ReadChain(proxy_id, abi) ==
    IF ExposesImplementation(abi)
    THEN [path |-> "call", slot_reads |-> 0, call_reads |-> 1, raised |-> FALSE,
          impl_address |-> [id |-> chain[proxy_id].implementation,
                            form |-> "checksum"]]
    ELSE LET impl_raw == chain[proxy_id].slot
         IN  [path |-> "slot", slot_reads |-> 1, call_reads |-> 0,
              raised |-> SlotIsZero(impl_raw),
              impl_address |-> IF SlotIsZero(impl_raw) THEN NoneAddr
                               ELSE AddressFromSlot(impl_raw)]

\* A resolution that keeps the address it found the first time.
Remembered(proxy_id, abi) ==
    IF resolved[proxy_id] # NoneAddr
    THEN [path |-> "kept", slot_reads |-> 0, call_reads |-> 0, raised |-> FALSE,
          impl_address |-> resolved[proxy_id]]
    ELSE ReadChain(proxy_id, abi)

\* Lines 174-185 as get_proxy_impl_address runs them on every call.
Resolution(proxy_id, abi) == ReadChain(proxy_id, abi)

\* Line 173, for either operation: load_verified_contract(proxy_address).
ProxyCall(op) ==
    /\ pc = "idle"
    /\ \E proxy_address \in ProxyAddresses, data \in GetAbiAnswers :
         LET f == [Frame0 EXCEPT !.op = op,
                                 !.proxy_address = proxy_address,
                                 !.before_impl = resolved[proxy_address.id]]
             r == LoadInto(f, proxy_address, DefaultDir, data)
         IN  /\ cache' = r.cache
             /\ loads' = r.loads
             /\ IF r.frame.outcome = "raised"
                THEN /\ frame' = r.frame
                     /\ pc' = "done"
                ELSE /\ frame' = [r.frame EXCEPT !.outcome = "running",
                                                 !.proxy_cached = r.frame.exists,
                                                 !.proxy_abi = r.frame.abi]
                     /\ pc' = "proxy_read"
    /\ UNCHANGED <<node, others>>

\* The script calls get_proxy_impl_address(proxy_address).
GetProxyImplAddressCall == ProxyCall("get_proxy_impl_address")

\* The script calls load_impl_contract_from_proxy_address(proxy_address),
\* which starts with get_proxy_impl_address (line 193).
LoadImplContractCall == ProxyCall("load_impl_contract_from_proxy_address")

\* Lines 174-185: the chain is read and get_proxy_impl_address returns or
\* raises; load_impl_contract_from_proxy_address goes on at line 194.
ProxyRead ==
    /\ pc = "proxy_read"
    /\ LET id == frame.proxy_address.id
           r == Resolution(id, frame.proxy_abi)
           read == [frame EXCEPT !.onchain = chain[id], !.path = r.path,
                                 !.slot_reads = r.slot_reads,
                                 !.call_reads = r.call_reads,
                                 !.impl_address = r.impl_address]
       IN  IF r.raised
           THEN /\ frame' = Raise(read, "Exception", NoText)
                /\ pc' = "done"
                /\ UNCHANGED resolved
           ELSE /\ resolved' = [resolved EXCEPT ![id] = r.impl_address]
                /\ IF frame.op = "get_proxy_impl_address"
                   THEN /\ frame' = [read EXCEPT !.outcome = "returned"]
                        /\ pc' = "done"
                   ELSE /\ frame' = read
                        /\ pc' = "impl_load"
    /\ UNCHANGED <<node, cache, loads, chain, output_values, caller>>

\* Lines 194-195: the implementation's ABI from the cache or the API, bound
\* to the proxy's address.
ImplLoad ==
    /\ pc = "impl_load"
    /\ \E data \in GetAbiAnswers :
         LET r == LoadInto(frame, frame.impl_address, DefaultDir, data)
         IN  /\ cache' = r.cache
             /\ loads' = r.loads
             /\ frame' = IF r.frame.outcome = "raised" THEN r.frame
                         ELSE [r.frame EXCEPT !.handle =
                                 [address |-> to_checksum_address(frame.proxy_address),
                                  abi |-> r.frame.abi]]
    /\ pc' = "done"
    /\ UNCHANGED <<node, others>>

\* The proxy's owner upgrades it, or initializes it: the slot and what
\* implementation() returns change.
Upgrade ==
    /\ \E id \in ProxyIds, value \in ChainValues :
         /\ value # chain[id]
         /\ chain' = [chain EXCEPT ![id] = value]
    /\ UNCHANGED <<pc, node, cache, loads, frame, resolved, output_values, caller>>

(***************************************************************************)
(* compile_contract                                                        *)
(***************************************************************************)
\* The script builds a new list of output fields, dropping the one it held.
ScriptNewList ==
    /\ pc = "idle"
    /\ \E list \in OutputLists :
         /\ output_values' = list
         /\ caller' = Built(list)
    /\ UNCHANGED <<pc, node, cache, loads, frame, chain, resolved>>

\* The keys of the result that do not come from the compiler's output.
ResultKeys ==
    {"contract_name", "compiler_version", "optimize", "optimizer_runs",
     "contract_source"}

\* The outcomes of reading the source, compiling it and looking up the
\* contract's name in the compiler's output.
CompileOutcomes == {"compiled", "SolcError", "StopIteration"}

\* compile_contract(contract_path, version, contract_name, output_values):
\* with output_values None or the list the script holds.  Line 107 appends
\* to the object the function was given, which is the script's list unless
\* line 105 made a new one.
CompileContract ==
    /\ pc = "idle"
    /\ \E passed \in {"None", "list"}, compiled \in CompileOutcomes :
         LET given == IF passed = "None" THEN <<KEY_abi, KEY_bin>> ELSE output_values
             adds == KEY_metadata \notin Range(given)
             requested == IF adds THEN Append(given, KEY_metadata) ELSE given
             remove_fields == IF adds THEN {KEY_metadata} ELSE {}
             result == (ResultKeys \cup Range(requested)) \ remove_fields
             f == [frame EXCEPT !.op = "compile_contract", !.passed = passed,
                                !.supplied_list = given, !.requested = requested,
                                !.remove_fields = remove_fields,
                                !.earlier = IF passed = "list" THEN caller
                                            ELSE Built(<<>>)]
         IN  /\ output_values' = IF passed = "list" THEN requested ELSE output_values
             /\ IF compiled = "compiled"
                THEN /\ frame' = [f EXCEPT !.outcome = "returned", !.fields = result]
                     /\ caller' = IF passed = "list"
                                  THEN [caller EXCEPT !.called = TRUE,
                                                      !.fields = result]
                                  ELSE caller
                ELSE /\ frame' = Raise(f, compiled, NoText)
                     /\ caller' = caller
    /\ pc' = "done"
    /\ UNCHANGED <<node, cache, loads, chain, resolved>>

(***************************************************************************)
(* The program and its environment.                                        *)
(***************************************************************************)
Next ==
    \/ ExternalTx
    \/ SendTxCall
    \/ SendTxBroadcast
    \/ SendTxReceipt
    \/ DeployAndVerifyCall
    \/ DeployAndVerifySubmit
    \/ DeployAndVerifyPoll
    \/ LoadVerifiedContractAbi
    \/ ScriptContinues

Spec == Init /\ [][Next]_vars

\* Every blocking call returns: the node takes or refuses the transaction and
\* mines it, the explorer answers the submission and each status query.
FairSpec ==
    /\ Spec
    /\ WF_vars(SendTxBroadcast)
    /\ WF_vars(SendTxReceipt)
    /\ WF_vars(DeployAndVerifySubmit)
    /\ WF_vars(DeployAndVerifyPoll)

\* The proxy operations with the ABI cache they share and the chain.  They
\* neither send transactions nor compile, so those operations are left to
\* Spec, which in turn leaves the chain as it is.
ProxyNext ==
    \/ Upgrade
    \/ GetProxyImplAddressCall
    \/ LoadImplContractCall
    \/ ProxyRead
    \/ ImplLoad
    \/ LoadVerifiedContractAbi
    \/ ScriptContinues

ProxySpec == Init /\ [][ProxyNext]_vars

\* The script's compile_contract calls and the lists it passes to them.
CompileNext ==
    \/ ScriptNewList
    \/ CompileContract
    \/ ScriptContinues

CompileSpec == Init /\ [][CompileNext]_vars

(***************************************************************************)
(* The claims.                                                             *)
(***************************************************************************)
InDeployAndVerify == frame.op = "deploy_and_verify"
InLoadAbi == frame.op = "load_verified_contract_abi"

\* C1: when all 10 status polls answer with a non-success status whose
\* result contains "Pending", deploy_and_verify ends in failure: it raises
\* and returns no contract handle.
C1_ExhaustedPollsFail ==
    (InDeployAndVerify /\ pc = "done" /\ frame.polls = 10 /\ frame.pendings = 10)
        => (frame.outcome = "raised" /\ frame.handle = NoHandle)

\* C2: when the acknowledgment of the verifysourcecode submission has a
\* status other than "1", deploy_and_verify has raised, has made no status
\* query and returns no handle.
C2_RejectedSubmissionRaisesBeforePolling ==
    (InDeployAndVerify /\ frame.ack # NoStatus /\ frame.ack.status # "1")
        => /\ pc = "done"
           /\ frame.outcome = "raised"
           /\ IsSubstring(frame.ack.result, frame.error)
           /\ frame.polls = 0
           /\ frame.handle = NoHandle

C2_Witness ==
    /\ InDeployAndVerify
    /\ frame.ack.status = "0"
    /\ frame.outcome = "raised"
    /\ frame.submits = 1

\* C3: when the status API has answered "Pending" N times (N in 0..9) and
\* then success, deploy_and_verify has stopped asking after exactly N+1
\* queries and returned a handle bound to the deployed (or supplied) address
\* and the compiled ABI.
C3_PendingThenSuccessReturnsHandle ==
    (InDeployAndVerify /\ frame.status.status = "1" /\ frame.pendings \in 0..9)
        => /\ pc = "done"
           /\ frame.outcome = "returned"
           /\ frame.polls = frame.pendings + 1
           /\ frame.handle.abi = CompiledAbi
           /\ frame.handle.address =
                 IF Truthy(frame.supplied) THEN frame.supplied
                 ELSE frame.receiptAddress
           /\ frame.handle.address # NoneAddr

C3_Witness ==
    /\ InDeployAndVerify
    /\ frame.status.status = "1"
    /\ frame.pendings = 9
    /\ frame.polls = 10
    /\ frame.outcome = "returned"
    /\ ~Truthy(frame.supplied)
    /\ frame.handle.address = frame.receiptAddress

\* C4: a status answer that is neither success nor pending is fatal, however
\* many "Pending" answers came before it: deploy_and_verify has raised an
\* error carrying the answer's result text, asks nothing more and returns no
\* handle.
C4_OtherAnswerIsFatal ==
    (/\ InDeployAndVerify
     /\ frame.status # NoStatus
     /\ frame.status.status # "1"
     /\ ~IsSubstring(TxtPending, frame.status.result))
        => /\ pc = "done"
           /\ frame.outcome = "raised"
           /\ IsSubstring(frame.status.result, frame.error)
           /\ frame.polls = frame.pendings + 1
           /\ frame.handle = NoHandle

C4_Witness ==
    /\ InDeployAndVerify
    /\ frame.pendings = 3
    /\ frame.status.result = TxtFailUnable
    /\ frame.outcome = "raised"
    /\ frame.error = TxtVerificationFailed \o TxtFailUnable

\* C5: the poll loop is bounded and terminates: whatever the API answers, at
\* most 10 status queries are made, and a workflow in the loop reaches a
\* terminal outcome (a returned handle or a raised error).
C5_PollLoopBoundedAndTerminates ==
    /\ [](frame.polls <= 10)
    /\ (pc = "dv_poll") ~> (pc = "done" /\ frame.outcome \in {"returned", "raised"})

C5_Witness ==
    /\ InDeployAndVerify
    /\ pc = "done"
    /\ frame.polls = 10

\* C6: when send_tx hands a transaction to the node and the transaction the
\* node was handed just before came from send_tx too and was taken (so the
\* count grew by one and nothing else came in between), the nonce in the
\* second is one more than the nonce in the first, on either path.
C6_SequentialNonces ==
    (frame.broadcasts = 1 /\ frame.previous.by = "send_tx" /\ frame.previous.accepted)
        => frame.tx_nonce = frame.previous.nonce + 1

C6_Witness ==
    /\ frame.op = "send_tx"
    /\ frame.broadcasts = 1
    /\ frame.previous.by = "send_tx"
    /\ frame.previous.accepted
    /\ frame.previous.build_tx
    /\ ~frame.build_tx
    /\ frame.tx_nonce = frame.previous.nonce + 1
    /\ frame.tx_nonce = 2

\* C7: when the mined receipt has status 0, send_tx has failed instead of
\* returning the receipt and has handed the node one transaction only; in
\* deploy_and_verify no contract address was taken from the receipt, nothing
\* was submitted or polled and no handle is returned.
C7_FailedReceiptIsFatal ==
    frame.receiptStatus = 0
        => /\ pc = "done"
           /\ frame.outcome = "raised"
           /\ frame.errType = "AssertionError"
           /\ frame.receiptAddress = NoneAddr
           /\ frame.broadcasts = 1
           /\ frame.contract_address = NoneAddr
           /\ frame.payload = NoPayload
           /\ frame.submits = 0
           /\ frame.polls = 0
           /\ frame.handle = NoHandle

C7_Witness ==
    /\ InDeployAndVerify
    /\ frame.receiptStatus = 0
    /\ frame.outcome = "raised"

\* C8: the first load_verified_contract_abi call for an address (nothing
\* cached, the API reporting an ABI) makes one network call and writes one
\* cache file, named by the checksummed address; every later call for that
\* address, in any letter case, makes no network call, writes nothing and
\* returns the ABI the first call returned.
C8_CacheWriteOnceReadThrough ==
    (InLoadAbi /\ pc = "done")
        => LET file == <<frame.cache_dir, to_checksum_address(frame.address)>>
           IN  /\ (frame.before.abi = NoAbi /\ frame.data_status = "1")
                     => /\ frame.outcome = "returned"
                        /\ frame.network = 1
                        /\ frame.wrote = {file}
                        /\ json_loads(cache[file]) = frame.abi
               /\ frame.before.abi # NoAbi
                     => /\ frame.outcome = "returned"
                        /\ frame.network = 0
                        /\ frame.wrote = {}
                        /\ frame.abi = frame.before.abi

C8_Witness ==
    /\ InLoadAbi
    /\ pc = "done"
    /\ frame.before.abi # NoAbi
    /\ frame.address.form = "lower"
    /\ cache[<<frame.cache_dir, frame.address>>] = NoFile
    /\ cache[<<frame.cache_dir, to_checksum_address(frame.address)>>] # NoFile
    /\ frame.network = 0
    /\ frame.abi = frame.before.abi

\* C9: deploy_and_verify called with an address skips the deployment: no
\* nonce is fetched, nothing is signed or handed to the node, and the
\* payload and the returned handle carry the supplied address.  Called
\* without one, it hands the node exactly one transaction, and the address
\* it uses is the one in that transaction's receipt.
C9_SuppliedAddressSkipsDeployment ==
    InDeployAndVerify
        => /\ Truthy(frame.supplied)
                => /\ frame.nonce = -1
                   /\ frame.tx_nonce = -1
                   /\ frame.broadcasts = 0
                   /\ frame.contract_address = frame.supplied
                   /\ frame.submits > 0 => frame.payload.contractaddress = frame.supplied
                   /\ frame.outcome = "returned" => frame.handle.address = frame.supplied
           /\ ~Truthy(frame.supplied)
                => /\ frame.broadcasts <= 1
                   /\ pc # "send_tx_signed" => frame.broadcasts = 1
                   /\ frame.contract_address = frame.receiptAddress
                   /\ frame.submits > 0
                        => /\ frame.receiptStatus = 1
                           /\ frame.payload.contractaddress = frame.receiptAddress
                           /\ frame.receiptAddress = CreatedAddress(frame.tx_nonce)
                   /\ frame.outcome = "returned"
                        => frame.handle.address = frame.receiptAddress

C9_Witness ==
    /\ InDeployAndVerify
    /\ frame.supplied \in Addresses
    /\ frame.supplied.form = "lower"
    /\ node.count > 0
    /\ frame.outcome = "returned"
    /\ frame.handle.address = frame.supplied
    /\ frame.payload.contractaddress = frame.supplied

\* C10: when nothing is cached for an address and the API reports no ABI
\* (getabi status other than "1"), load_verified_contract_abi fails and
\* writes no cache file; a later call for the address asks the API again.
C10_NoAbiLeavesCacheUnchanged ==
    (InLoadAbi /\ pc = "done")
        => /\ frame.data_status \notin {"", "1"}
                => /\ frame.outcome = "raised"
                   /\ frame.errType = "ValueError"
                   /\ frame.wrote = {}
                   /\ \A form \in AddrForms :
                        cache[<<frame.cache_dir,
                                [id |-> frame.address.id, form |-> form]>>] = NoFile
           /\ frame.before.last = "failed" => frame.network = 1

C10_Witness ==
    /\ InLoadAbi
    /\ pc = "done"
    /\ frame.before.last = "failed"
    /\ frame.network = 1
    /\ frame.data_status = "0"
    /\ frame.outcome = "raised"

\* The running operation has been through the lines 174-185 of
\* get_proxy_impl_address, called by the script or by
\* load_impl_contract_from_proxy_address.
PastResolution ==
    /\ frame.op \in {"get_proxy_impl_address", "load_impl_contract_from_proxy_address"}
    /\ pc \in {"impl_load", "done"}
    /\ frame.proxy_abi # NoAbi

\* C11: get_proxy_impl_address chooses its path by the proxy's ABI.  With a
\* function named implementation in it, the result is what that call
\* returns and the slot is not read; without one, the slot is read and the
\* result is the address in its low 20 bytes, the call failing instead
\* exactly when the 32 bytes of the slot are all zero.
C11_PathChosenByAbi ==
    PastResolution
        => LET slot == frame.onchain.slot
               failed == frame.errType = "Exception"
           IN  /\ frame.impl_address = NoneAddr <=> failed
               /\ failed => pc = "done" /\ frame.outcome = "raised"
               /\ (frame.op = "get_proxy_impl_address" /\ ~failed)
                     => frame.outcome = "returned"
               /\ IF "implementation" \in frame.proxy_abi
                  THEN /\ frame.path = "call"
                       /\ frame.slot_reads = 0
                       /\ ~failed
                       /\ frame.impl_address =
                             [id |-> frame.onchain.implementation, form |-> "checksum"]
                  ELSE /\ frame.path = "slot"
                       /\ frame.call_reads = 0
                       /\ failed <=> (slot.high = 0 /\ slot.low = 0)
                       /\ ~failed => frame.impl_address =
                                        [id |-> slot.low, form |-> "checksum"]

C11_Witness ==
    /\ frame.op = "get_proxy_impl_address"
    /\ pc = "done"
    /\ frame.path = "slot"
    /\ frame.onchain.slot = [high |-> 1, low |-> 0]
    /\ frame.onchain.implementation = 2
    /\ frame.outcome = "returned"
    /\ frame.impl_address = ZeroAddress

\* C13: the binding of a proxy to its implementation is not kept.  Every
\* call reads the chain once more and gives the implementation the chain has
\* at that call, whatever an earlier call for the proxy returned and
\* whatever the ABI cache holds; the handle of
\* load_impl_contract_from_proxy_address carries the proxy's address and the
\* ABI loaded for that implementation, and the call fails only if the slot
\* is zero or the API has no ABI for that implementation.
C13_BindingRecomputed ==
    PastResolution
        => LET now == IF frame.path = "call"
                      THEN [id |-> frame.onchain.implementation, form |-> "checksum"]
                      ELSE [id |-> frame.onchain.slot.low, form |-> "checksum"]
           IN  /\ frame.path \in {"call", "slot"}
               /\ frame.slot_reads + frame.call_reads = 1
               /\ frame.impl_address # NoneAddr => frame.impl_address = now
               /\ frame.errType = "Exception" => frame.onchain.slot = NoChain.slot
               /\ (frame.op = "load_impl_contract_from_proxy_address" /\ pc = "done"
                     /\ frame.impl_address # NoneAddr)
                     => /\ frame.address = now
                        /\ frame.outcome = "returned"
                             => /\ frame.handle.address =
                                      to_checksum_address(frame.proxy_address)
                                /\ frame.handle.abi = frame.abi
                                /\ frame.handle.abi =
                                      json_loads(cache[<<DefaultDir, now>>])
                        /\ frame.outcome = "raised"
                             => /\ frame.errType = "ValueError"
                                /\ ~frame.exists
                                /\ frame.data_status = "0"

C13_Witness ==
    /\ frame.op = "load_impl_contract_from_proxy_address"
    /\ pc = "done"
    /\ frame.outcome = "returned"
    /\ frame.proxy_cached
    /\ frame.before_impl \in Addresses
    /\ frame.impl_address \in Addresses
    /\ frame.before_impl # frame.impl_address
    /\ cache[<<DefaultDir, frame.before_impl>>] # NoFile
    /\ frame.handle.abi # json_loads(cache[<<DefaultDir, frame.before_impl>>])
    /\ frame.handle.abi = json_loads(cache[<<DefaultDir, frame.impl_address>>])
    /\ frame.handle.address.id = frame.proxy_address.id

\* C12: compile_contract strips metadata unless the caller asked for it and
\* leaves the caller's list alone.  A call given a list that the script
\* built without metadata in it returns a result without a metadata field
\* and, returning or raising, leaves the list as the script built it; any
\* earlier call given the same list returned the same fields.  A call given
\* no list returns no metadata field either.
C12_MetadataStrippedListUntouched ==
    (pc = "done" /\ frame.op = "compile_contract")
        => /\ (frame.passed = "None" /\ frame.outcome = "returned")
                 => KEY_metadata \notin frame.fields
           /\ (frame.passed = "list" /\ KEY_metadata \notin Range(caller.built))
                 => /\ output_values = caller.built
                    /\ frame.outcome = "returned"
                          => /\ KEY_metadata \notin frame.fields
                             /\ frame.earlier.called
                                   => frame.fields = frame.earlier.fields

=============================================================================
